---- MODULE Spec2Model ----
(***************************************************************************)
(* Leaflet.SmoothMarkerBouncing: the timeline calculator, the bouncing     *)
(* registry and the per-marker bounce scheduler of                         *)
(* leaflet.smoothmarkerbouncing.js as a state machine.                     *)
(*                                                                         *)
(* JavaScript arrays are 0-based; they are kept here as sequences whose    *)
(* element i+1 is the array's element i (see At).  An array is an object:  *)
(* it is a record [id, a] of its allocation number and its contents, so    *)
(* that "the same instance" can be told from "an equal array".             *)
(* Timers (setTimeout) are a queue ordered by due time, then by            *)
(* registration; rem is the time left until a timer is due.                *)
(***************************************************************************)
EXTENDS Integers, Sequences, FiniteSets, TLC

VARIABLES
    is3d,               \* L.Browser.any3d of the host
    defaults,           \* L.Marker.prototype._bouncingOptions
    ownOptions,         \* marker._bouncingOptions of the markers owning one
    motion,             \* marker._bouncingMotion
    bouncingMarkers,    \* L.Marker._bouncingMarkers
    cache,              \* _bouncingMotionsCache
    allocs,             \* number of step/delay arrays allocated so far
    chains,             \* closures of the bounce() calls still animating
    timers,             \* pending setTimeout callbacks
    ret,                \* value returned by the last timeline calculation
    calc,               \* frame of the calculation that is running, if any
    lastOp              \* the operation that produced the current state

vars == <<is3d, defaults, ownOptions, motion, bouncingMarkers, cache, allocs,
          chains, timers, ret, calc, lastOp>>

-----------------------------------------------------------------------------
(* Bounds of the model *)

MaxExtent == 1      \* bounce/contract heights of the markers are 1..MaxExtent
MaxSpeed == 1       \* speed coefficients of the markers are 1..MaxSpeed
MaxCalcExtent == 5  \* heights given to the timeline calculator alone
MaxArrays == 3      \* arrays the timeline calculator alone may allocate
MaxTimes == 2       \* repetition counts passed to bounce are 1..MaxTimes
MaxRegistry == 2    \* entries of L.Marker._bouncingMarkers while time passes
MaxAnimating == 2   \* bounce() closures animating while time passes
MaxChains == 3      \* bounce() closures with a callback pending

(* Program constants: the default options *)

DefaultBounceHeight == 15
DefaultContractHeight == 12
DefaultBounceSpeed == 52
DefaultContractSpeed == 52

Markers == {"A", "B"}
Extents == 1..MaxExtent
Speeds == 1..MaxSpeed
ChainIds == 1..MaxChains    \* names for the closures of bounce() calls

-----------------------------------------------------------------------------
(* JavaScript helpers *)

At(a, i) == a[i + 1]

Min(a, b) == IF a < b THEN a ELSE b

\* Math.round of the quotient n / d, d > 0: the nearest integer, halves up
MathRound(n, d) == (2 * n + d) \div (2 * d)

NoArray == [id |-> 0, a |-> <<>>]

\* no calculation is running
NoCalc == [pc |-> "idle"]

\* array.length
Length(arr) ==
    LET idx == {j \in DOMAIN arr : j >= 0}
    IN  IF idx = {} THEN 0
        ELSE (CHOOSE j \in idx : \A k \in idx : k <= j) + 1

\* array[j] = v
Put(arr, j, v) == [k \in DOMAIN arr \cup {j} |-> IF k = j THEN v ELSE arr[k]]

\* array.push(v)
Push(arr, v) == Put(arr, Length(arr), v)

\* the elements 0 .. length-1 of an array without holes, as a sequence
Elements(arr) == [j \in 1..Length(arr) |-> arr[j - 1]]

Running == calc.pc \in {"outbound", "mirror", "cumulate", "line"}

\* the frame of calculateDelays(height, speed, prefix) on a cache miss, when
\* it reaches its first loop: deltas[height] = speed; deltas[0] = 0; i = height
DelaysFrame(height, speed, prefix) ==
    [pc |-> "outbound", hit |-> FALSE, height |-> height, speed |-> speed,
     prefix |-> prefix, delays |-> <<>>, totalDelay |-> 0, i |-> height,
     deltas |-> Put(Put(<<>>, height, speed), 0, 0)]

-----------------------------------------------------------------------------
(* Timeline calculator *)

RECURSIVE StepsUp(_, _, _)
StepsUp(steps, i, height) ==
    IF i <= height THEN StepsUp(Append(steps, i), i + 1, height) ELSE steps

RECURSIVE StepsDown(_, _)
StepsDown(steps, i) ==
    IF i # 0 THEN StepsDown(Append(steps, i - 1), i - 1) ELSE steps

\* BUG VARIANT: the rising loop stops one step short (i < height)
RECURSIVE StepsUpShort(_, _, _)
StepsUpShort(steps, i, height) ==
    IF i < height THEN StepsUpShort(Append(steps, i), i + 1, height) ELSE steps

\* BUG VARIANT of NewSteps: the apex step is missing
NewStepsShort(height) == StepsDown(StepsUpShort(<<>>, 1, height), height)

\* steps = [1 .. height] concat [height-1 .. 0]
NewSteps(height) == StepsDown(StepsUp(<<>>, 1, height), height)

\* calculateSteps(height, prefix) on cache c with n arrays allocated
CalculateSteps(c, n, height, prefix) ==
    LET key == <<prefix, height>>
        arr == [id |-> n + 1, a |-> NewSteps(height)]
    IN  IF key \in DOMAIN c
        THEN [ret |-> c[key], cache |-> c, allocs |-> n]
        ELSE [ret |-> arr, allocs |-> n + 1,
              cache |-> [k \in DOMAIN c \cup {key} |->
                            IF k = key THEN arr ELSE c[k]]]

\* deltas[height] = speed; deltas[0] = 0; deltas[i] = round(speed/(height-i))
OutboundDeltas(height, speed) ==
    [j \in 1..(height + 1) |->
        IF j - 1 = 0 THEN 0
        ELSE IF j - 1 = height THEN speed
        ELSE MathRound(speed, height - (j - 1))]

\* i = height; while (i--) deltas.push(deltas[i])
RECURSIVE MirrorDeltas(_, _)
MirrorDeltas(deltas, i) ==
    IF i # 0 THEN MirrorDeltas(Append(deltas, At(deltas, i - 1)), i - 1)
    ELSE deltas

\* for (i = 0; i < deltas.length; i++) delays.push(totalDelay += deltas[i])
RECURSIVE CumulateDeltas(_, _, _, _)
CumulateDeltas(deltas, delays, totalDelay, i) ==
    IF i < Len(deltas)
    THEN CumulateDeltas(deltas, Append(delays, totalDelay + At(deltas, i)),
                        totalDelay + At(deltas, i), i + 1)
    ELSE delays

NewDelays(height, speed) ==
    CumulateDeltas(MirrorDeltas(OutboundDeltas(height, speed), height),
                   <<>>, 0, 0)

\* BUG VARIANT of CalculateDelays: the cache key leaves the speed out
CalculateDelaysAnySpeed(c, n, height, speed, prefix) ==
    LET key == <<prefix, height>>
        arr == [id |-> n + 1, a |-> NewDelays(height, speed)]
    IN  IF key \in DOMAIN c
        THEN [ret |-> c[key], cache |-> c, allocs |-> n]
        ELSE [ret |-> arr, allocs |-> n + 1,
              cache |-> [k \in DOMAIN c \cup {key} |->
                            IF k = key THEN arr ELSE c[k]]]

\* calculateDelays(height, speed, prefix), for height >= 1
CalculateDelays(c, n, height, speed, prefix) ==
    LET key == <<prefix, height, speed>>
        arr == [id |-> n + 1, a |-> NewDelays(height, speed)]
    IN  IF key \in DOMAIN c
        THEN [ret |-> c[key], cache |-> c, allocs |-> n]
        ELSE [ret |-> arr, allocs |-> n + 1,
              cache |-> [k \in DOMAIN c \cup {key} |->
                            IF k = key THEN arr ELSE c[k]]]

\* marker._calculateTimeline() with options o: the four arrays, in order
CalculateTimeline(c, n, o) ==
    LET ms == CalculateSteps(c, n, o.bounceHeight, "moveSteps_")
        md == CalculateDelays(ms.cache, ms.allocs, o.bounceHeight,
                              o.bounceSpeed, "moveDelays_")
        rs == CalculateSteps(md.cache, md.allocs, o.contractHeight,
                             "resizeSteps_")
        rd == CalculateDelays(rs.cache, rs.allocs, o.contractHeight,
                              o.contractSpeed, "resizeDelays_")
    IN  [moveSteps |-> ms.ret, moveDelays |-> md.ret,
         resizeSteps |-> rs.ret, resizeDelays |-> rd.ret,
         cache |-> rd.cache, allocs |-> rd.allocs]

-----------------------------------------------------------------------------
(* Compiled visual states.  Of an array of transforms or points the model   *)
(* keeps whether the property of _bouncingMotion was ever assigned and at   *)
(* which indices it has an entry.                                           *)

Unassigned == [assigned |-> FALSE, at |-> {}]

\* d = n; while (d--) t[d] = ...
Filled(n) == [assigned |-> TRUE, at |-> 0..(n - 1)]

\* array[step] is there
Defined(arr, step) == arr.assigned /\ step \in arr.at

\* marker._calculateTransforms() on the motion mo of a marker with options
\* o.  With 3d transforms the four arrays are filled from the heights; the
\* line of the shadow has bounceHeight + 1 points, one for each entry.
\* Without, calculateIconMovePoints reads dH, which is declared nowhere, in
\* strict mode: the ReferenceError leaves the function before anything is
\* assigned.
CalculateTransforms(mo, o, any3d) ==
    IF any3d
    THEN [mo EXCEPT !.iconMoveTransforms = Filled(o.bounceHeight + 1),
                    !.iconResizeTransforms = Filled(o.contractHeight + 1),
                    !.shadowMoveTransforms = Filled(o.bounceHeight + 1),
                    !.shadowResizeTransforms = Filled(o.contractHeight + 1)]
    ELSE mo

-----------------------------------------------------------------------------
(* Options *)

OptionNames == {"bounceHeight", "contractHeight", "bounceSpeed",
                "contractSpeed", "elastic", "exclusif"}

\* L.Marker.prototype._bouncingOptions as the script defines it
ProgramDefaults ==
    [bounceHeight |-> DefaultBounceHeight,
     contractHeight |-> DefaultContractHeight,
     bounceSpeed |-> DefaultBounceSpeed,
     contractSpeed |-> DefaultContractSpeed,
     elastic |-> TRUE,
     exclusif |-> FALSE]

\* for (option in options) defaults[option] = options[option]
MergeDefaults(d, options) ==
    [k \in DOMAIN d |-> IF k \in DOMAIN options THEN options[k] ELSE d[k]]

\* for (option in defaults) own[option] = options has it ? options : defaults
MergeOwn(d, options) ==
    [k \in DOMAIN d |-> IF k \in DOMAIN options THEN options[k] ELSE d[k]]

\* marker._bouncingOptions, through the prototype when the marker owns none
BouncingOptions(m) ==
    IF m \in DOMAIN ownOptions THEN ownOptions[m] ELSE defaults

-----------------------------------------------------------------------------
(* Bouncing registry: operators on (markers, motion), returning both *)

\* while (marker = markers.shift()) marker._bouncingMotion.isBouncing = false
\* BUG VARIANT of StopBouncingMarkers: the list is emptied but only its first
\* marker is told to stop
StopFirstBouncingMarker(markers, mo) ==
    IF markers = <<>> THEN [markers |-> <<>>, motion |-> mo]
    ELSE [markers |-> <<>>,
          motion |-> [mo EXCEPT ![Head(markers)].isBouncing = FALSE]]

RECURSIVE StopBouncingMarkers(_, _)
StopBouncingMarkers(markers, mo) ==
    IF markers = <<>> THEN [markers |-> <<>>, motion |-> mo]
    ELSE StopBouncingMarkers(Tail(markers),
                             [mo EXCEPT ![Head(markers)].isBouncing = FALSE])

\* splice(i, 1) on a 0-based index
Splice(markers, i) ==
    SubSeq(markers, 1, i) \o SubSeq(markers, i + 2, Len(markers))

\* while (i--) if (markers[i] == marker) { splice(i, 1); break; }
RECURSIVE RemoveBouncingMarker(_, _, _)
RemoveBouncingMarker(markers, marker, i) ==
    IF i = 0 THEN markers
    ELSE IF At(markers, i - 1) = marker THEN Splice(markers, i - 1)
    ELSE RemoveBouncingMarker(markers, marker, i - 1)

\* BUG VARIANT of StopEclusifMarkerBouncing: the exclusif markers are taken
\* out of the list and not told to stop
RECURSIVE SpliceEclusifMarkers(_, _, _, _)
SpliceEclusifMarkers(markers, mo, exclusif, i) ==
    IF i = 0 THEN [markers |-> markers, motion |-> mo]
    ELSE IF exclusif[At(markers, i - 1)]
    THEN SpliceEclusifMarkers(Splice(markers, i - 1), mo, exclusif, i - 1)
    ELSE SpliceEclusifMarkers(markers, mo, exclusif, i - 1)

\* while (i--) if (markers[i] is exclusif) { isBouncing = false; splice(i,1) }
RECURSIVE StopEclusifMarkerBouncing(_, _, _, _)
StopEclusifMarkerBouncing(markers, mo, exclusif, i) ==
    IF i = 0 THEN [markers |-> markers, motion |-> mo]
    ELSE IF exclusif[At(markers, i - 1)]
    THEN StopEclusifMarkerBouncing(
             Splice(markers, i - 1),
             [mo EXCEPT ![At(markers, i - 1)].isBouncing = FALSE],
             exclusif, i - 1)
    ELSE StopEclusifMarkerBouncing(markers, mo, exclusif, i - 1)

\* BUG VARIANT of AddBouncingMarker: a plain marker no longer stops the
\* exclusif one that is bouncing
AddBouncingMarkerNoEvict(markers, mo, exclusif, marker, flag) ==
    LET r == IF flag \/ exclusif[marker]
             THEN StopBouncingMarkers(markers, mo)
             ELSE [markers |-> markers, motion |-> mo]
    IN  [markers |-> Append(r.markers, marker), motion |-> r.motion]

\* L.Marker._addBouncingMarker(marker, exclusif)
AddBouncingMarker(markers, mo, exclusif, marker, flag) ==
    LET r == IF flag \/ exclusif[marker]
             THEN StopBouncingMarkers(markers, mo)
             ELSE StopEclusifMarkerBouncing(markers, mo, exclusif,
                                            Len(markers))
    IN  [markers |-> Append(r.markers, marker), motion |-> r.motion]

-----------------------------------------------------------------------------
(* Timers *)

Timer(c, kind, step, delay) ==
    [chain |-> c, kind |-> kind, step |-> step, rem |-> delay]

\* setTimeout: due after every timer that is due no later
SetTimeout(q, t) ==
    LET k == Cardinality({i \in 1..Len(q) : q[i].rem <= t.rem})
    IN  SubSeq(q, 1, k) \o <<t>> \o SubSeq(q, k + 1, Len(q))

\* while (i--) setTimeout(makeStep, delays[i], steps[i])
RECURSIVE LaunchSteps(_, _, _, _, _, _)
LaunchSteps(q, c, kind, delays, steps, i) ==
    IF i # 0
    THEN LaunchSteps(SetTimeout(q, Timer(c, kind, At(steps, i - 1),
                                         At(delays, i - 1))),
                     c, kind, delays, steps, i - 1)
    ELSE q

-----------------------------------------------------------------------------
(* Bounce scheduler: the closures move() and resize() of one bounce() call. *)
(* A chain holds what the closure captured (marker, times, elastic,         *)
(* bounceSpeed, the four timeline arrays) and, for the properties, how it   *)
(* was called and what it has done: count (the times argument), moves (the  *)
(* Moving phases started, counted for a finite count), phase, stoppedInMove *)
(* (stopBouncing was called during a Moving phase and bounce not since) and *)
(* undisturbed (no other chain of the marker was alive at the call, and     *)
(* nothing has stopped or restarted the marker since).                      *)

\* --times, kept above -1: a negative count stays negative
Decrement(times) == IF times - 1 < -1 THEN -1 ELSE times - 1

Count(n) == Min(n + 1, MaxTimes + 1)

\* move(): count the pass down, launch the step timers and the end timer
Move(ch, mo, q, c) ==
    LET times == IF ch.finite THEN Decrement(ch.times) ELSE ch.times
        last == ch.finite /\ times = 0
        nbMoveSteps == Len(ch.moveSteps.a)
        q1 == LaunchSteps(q, c, "moveStep", ch.moveDelays.a, ch.moveSteps.a,
                          nbMoveSteps)
    IN  [chain |-> [ch EXCEPT !.times = times, !.phase = "Moving",
                              !.moves = IF ch.finite THEN Count(ch.moves)
                                        ELSE ch.moves],
         motion |-> IF last THEN [mo EXCEPT ![ch.marker].isBouncing = FALSE]
                    ELSE mo,
         timers |-> SetTimeout(q1, Timer(c, "moveEnd", 0,
                                   At(ch.moveDelays.a, nbMoveSteps - 1)))]

\* resize(): launch the step timers and the end timer
Resize(ch, q, c) ==
    LET nbResizeSteps == Len(ch.resizeSteps.a)
        q1 == LaunchSteps(q, c, "resizeStep", ch.resizeDelays.a,
                          ch.resizeSteps.a, nbResizeSteps)
    IN  [chain |-> [ch EXCEPT !.phase = "Resizing"],
         timers |-> SetTimeout(q1, Timer(c, "resizeEnd", 0,
                                   At(ch.resizeDelays.a, nbResizeSteps - 1)))]

\* BUG VARIANT of AfterMove: the next pass is chained without asking
\* whether the marker is still bouncing
AfterMoveUnchecked(elastic, any3d, bouncing) ==
    IF elastic /\ any3d THEN "resize" ELSE "wait"

\* BUG VARIANT of AfterMove: the contraction is started without asking
\* whether the browser is able of 3d transforms
AfterMoveAnyBrowser(elastic, any3d, bouncing) ==
    IF elastic THEN "resize"
    ELSE IF bouncing THEN "wait"
    ELSE "stop"

\* the callback at the end of the movement: resize, wait for the next
\* move, or stop
AfterMove(elastic, any3d, bouncing) ==
    IF elastic /\ any3d THEN "resize"
    ELSE IF bouncing THEN "wait"
    ELSE "stop"

\* the callback at the end of the contraction: move again, or stop
AfterResize(bouncing) == IF bouncing THEN "move" ELSE "stop"

\* the chains that still have a callback pending
Alive(chs, q) ==
    [c \in {d \in DOMAIN chs : \E i \in 1..Len(q) : q[i].chain = d} |-> chs[c]]

ChainsOf(m) == {c \in DOMAIN chains : chains[c].marker = m}

\* the chains of the markers in S are disturbed (stopped or restarted)
Disturb(chs, S) ==
    [c \in DOMAIN chs |->
        IF chs[c].marker \in S THEN [chs[c] EXCEPT !.undisturbed = FALSE]
        ELSE chs[c]]

Range(f) == {f[x] : x \in DOMAIN f}

-----------------------------------------------------------------------------
(* Operations *)

\* n: the length of the registry when bounce or stopBouncingMarkers was called
Op(op, on, n) == [op |-> op, on |-> on, n |-> n]

Exclusif == [x \in Markers |-> BouncingOptions(x).exclusif]

FreeChain == CHOOSE c \in ChainIds \ DOMAIN chains :
                 \A d \in ChainIds \ DOMAIN chains : c <= d

\* marker.bounce() or marker.bounce(n): given tells whether n was passed
Bounce(m, given, n) ==
    LET o == BouncingOptions(m)
        c == FreeChain
        reg == AddBouncingMarker(bouncingMarkers,
                                 [motion EXCEPT ![m].isBouncing = TRUE],
                                 Exclusif, m, o.exclusif)
        kept == Range(SubSeq(reg.markers, 1, Len(reg.markers) - 1))
        ch == [marker |-> m, finite |-> given, times |-> n,
               elastic |-> o.elastic, bounceSpeed |-> o.bounceSpeed,
               bounceHeight |-> o.bounceHeight,
               moveSteps |-> motion[m].moveSteps,
               moveDelays |-> motion[m].moveDelays,
               resizeSteps |-> motion[m].resizeSteps,
               resizeDelays |-> motion[m].resizeDelays,
               count |-> n, moves |-> 0, phase |-> "Idle",
               stoppedInMove |-> FALSE, undisturbed |-> ChainsOf(m) = {}]
        mv == Move(ch, reg.motion, timers, c)
        old == [d \in DOMAIN chains |->
                   IF chains[d].marker = m
                   THEN [chains[d] EXCEPT !.stoppedInMove = FALSE,
                                          !.undisturbed = FALSE]
                   ELSE chains[d]]
    IN  /\ ChainIds \ DOMAIN chains # {}
        /\ bouncingMarkers' = reg.markers
        /\ motion' = mv.motion
        /\ timers' = mv.timers
        /\ chains' = [d \in DOMAIN chains \cup {c} |->
                         IF d = c THEN mv.chain
                         ELSE Disturb(old, Range(bouncingMarkers) \ kept)[d]]
        /\ lastOp' = Op("bounce", m, Len(bouncingMarkers))
        /\ UNCHANGED <<is3d, defaults, ownOptions, cache, allocs, ret, calc>>

\* marker.stopBouncing()
StopBouncing(m) ==
    /\ motion' = [motion EXCEPT ![m].isBouncing = FALSE]
    /\ bouncingMarkers' = RemoveBouncingMarker(bouncingMarkers, m,
                                               Len(bouncingMarkers))
    /\ chains' = [c \in DOMAIN chains |->
                     IF chains[c].marker = m
                     THEN [chains[c] EXCEPT
                              !.stoppedInMove = @ \/ chains[c].phase = "Moving",
                              !.undisturbed = FALSE]
                     ELSE chains[c]]
    /\ lastOp' = Op("stopBouncing", m, 0)
    /\ UNCHANGED <<is3d, defaults, ownOptions, cache, allocs, timers, ret, calc>>

\* marker.toogleBouncing()
ToogleBouncing(m) ==
    IF motion[m].isBouncing THEN StopBouncing(m) ELSE Bounce(m, FALSE, 0)

\* L.Marker.stopBouncingMarkers()
StopAll ==
    LET r == StopBouncingMarkers(bouncingMarkers, motion)
    IN  /\ bouncingMarkers' = r.markers
        /\ motion' = r.motion
        /\ chains' = Disturb(chains, Range(bouncingMarkers))
        /\ lastOp' = Op("stopBouncingMarkers", "-", Len(bouncingMarkers))
        /\ UNCHANGED <<is3d, defaults, ownOptions, cache, allocs, timers,
                       ret, calc>>

\* marker.setBouncingOptions(options).  With a height of 0 the call does not
\* return: _calculateTimeline stays in the calculateDelays call for that
\* height, whose frame is then in calc, with what was assigned before it.
SetBouncingOptions(m, options) ==
    LET o == MergeOwn(defaults, options)
        tl == CalculateTimeline(cache, allocs, o)
        ms == CalculateSteps(cache, allocs, o.bounceHeight, "moveSteps_")
        md == CalculateDelays(ms.cache, ms.allocs, o.bounceHeight,
                              o.bounceSpeed, "moveDelays_")
        rs == CalculateSteps(md.cache, md.allocs, o.contractHeight,
                             "resizeSteps_")
    IN  /\ ~Running
        /\ ownOptions' = [x \in DOMAIN ownOptions \cup {m} |->
                             IF x = m THEN o ELSE ownOptions[x]]
        /\ IF o.bounceHeight = 0
           THEN /\ motion' = [motion EXCEPT ![m].moveSteps = ms.ret]
                /\ cache' = ms.cache
                /\ allocs' = ms.allocs
                /\ calc' = DelaysFrame(0, o.bounceSpeed, "moveDelays_")
           ELSE IF o.contractHeight = 0
           THEN /\ motion' = [motion EXCEPT ![m].moveSteps = ms.ret,
                                            ![m].moveDelays = md.ret,
                                            ![m].resizeSteps = rs.ret]
                /\ cache' = rs.cache
                /\ allocs' = rs.allocs
                /\ calc' = DelaysFrame(0, o.contractSpeed, "resizeDelays_")
           ELSE /\ motion' =
                      [motion EXCEPT ![m] =
                          CalculateTransforms(
                              [@ EXCEPT !.moveSteps = tl.moveSteps,
                                        !.moveDelays = tl.moveDelays,
                                        !.resizeSteps = tl.resizeSteps,
                                        !.resizeDelays = tl.resizeDelays],
                              o, is3d)]
                /\ cache' = tl.cache
                /\ allocs' = tl.allocs
                /\ calc' = calc
        /\ lastOp' = Op("setBouncingOptions", m, 0)
        /\ UNCHANGED <<is3d, defaults, bouncingMarkers, chains, timers, ret>>

\* marker._setPos(pos): the marker is drawn at a new position
SetPos(m) ==
    /\ motion' = [motion EXCEPT
                     ![m] = CalculateTransforms(@, BouncingOptions(m), is3d)]
    /\ lastOp' = Op("_setPos", m, 0)
    /\ UNCHANGED <<is3d, defaults, ownOptions, bouncingMarkers, cache, allocs,
                   chains, timers, ret, calc>>

\* L.Marker.setBouncingOptions(options)
SetDefaultBouncingOptions(options) ==
    /\ defaults' = MergeDefaults(defaults, options)
    /\ lastOp' = Op("setDefaultBouncingOptions", "-", 0)
    /\ UNCHANGED <<is3d, ownOptions, motion, bouncingMarkers, cache, allocs,
                   chains, timers, ret, calc>>

\* the callback of the timer that is due
Fire ==
    /\ timers # <<>>
    /\ Head(timers).rem = 0
    /\ LET t == Head(timers)
           q == Tail(timers)
           c == t.chain
           ch == chains[c]
           m == ch.marker
           same == [chain |-> ch, motion |-> motion, timers |-> q]
           next == IF t.kind = "moveEnd"
                   THEN AfterMove(ch.elastic, is3d, motion[m].isBouncing)
                   ELSE IF t.kind = "resizeEnd"
                   THEN AfterResize(motion[m].isBouncing)
                   ELSE IF t.kind = "move" THEN "move"
                   ELSE "step"
           r == CASE next = "move" -> Move(ch, motion, q, c)
                  [] next = "resize" ->
                        [motion |-> motion, chain |-> Resize(ch, q, c).chain,
                         timers |-> Resize(ch, q, c).timers]
                  [] next = "wait" ->
                        [motion |-> motion,
                         chain |-> [ch EXCEPT !.phase = "Waiting"],
                         timers |-> SetTimeout(q, Timer(c, "move", 0,
                                                        ch.bounceSpeed))]
                  [] OTHER -> same
       IN  /\ timers' = r.timers
           /\ motion' = r.motion
           /\ chains' = Alive([chains EXCEPT ![c] = r.chain], r.timers)
           /\ lastOp' = Op("timer", "-", 0)
    /\ UNCHANGED <<is3d, defaults, ownOptions, bouncingMarkers, cache, allocs,
                   ret, calc>>

\* a millisecond passes with no timer due
Tick ==
    /\ timers # <<>>
    /\ Head(timers).rem > 0
    /\ timers' = [i \in DOMAIN timers |-> [timers[i] EXCEPT !.rem = @ - 1]]
    /\ lastOp' = Op("timer", "-", 0)
    /\ UNCHANGED <<is3d, defaults, ownOptions, motion, bouncingMarkers, cache,
                   allocs, chains, ret, calc>>

-----------------------------------------------------------------------------
(* Initial states: the script is loaded, L.Marker.setBouncingOptions has   *)
(* made the defaults small enough to enumerate, then the markers were      *)
(* created and added to the map.                                           *)

InitOptions ==
    {[bounceHeight |-> h, contractHeight |-> h, bounceSpeed |-> s,
      contractSpeed |-> s, elastic |-> e, exclusif |-> x] :
        h \in Extents, s \in Speeds, e \in BOOLEAN, x \in BOOLEAN}

ExclusifOptions == {[exclusif |-> b] : b \in BOOLEAN}

TimesGiven == 1..MaxTimes

\* the markers constructed, those of the set added being on the map (_setPos
\* has compiled the visual states and onAdd has set baseIconCssText; before,
\* the properties are undefined)
InitMarkers(options, added) ==
    /\ is3d \in BOOLEAN
    /\ defaults \in {MergeDefaults(ProgramDefaults, o) : o \in options}
    /\ ownOptions = <<>>
    /\ LET tl == CalculateTimeline(<<>>, 0, defaults)
           mo == [isBouncing |-> FALSE,
                  baseIconCssText |-> "undefined",
                  moveSteps |-> tl.moveSteps,
                  moveDelays |-> tl.moveDelays,
                  resizeSteps |-> tl.resizeSteps,
                  resizeDelays |-> tl.resizeDelays,
                  iconMoveTransforms |-> Unassigned,
                  iconResizeTransforms |-> Unassigned,
                  shadowMoveTransforms |-> Unassigned,
                  shadowResizeTransforms |-> Unassigned,
                  iconMovePoints |-> Unassigned,
                  shadowMovePoints |-> Unassigned]
       IN  /\ motion = [m \in Markers |->
                           IF m \in added
                           THEN [CalculateTransforms(mo, defaults, is3d)
                                    EXCEPT !.baseIconCssText = "css"]
                           ELSE mo]
           /\ cache = tl.cache
           /\ allocs = tl.allocs
    /\ bouncingMarkers = <<>>
    /\ chains = <<>>
    /\ timers = <<>>
    /\ ret = NoArray
    /\ calc = NoCalc
    /\ lastOp = Op("init", "-", 0)

InitWith(options) == InitMarkers(options, Markers)

(* Spec: the animation over time.  The options are those of the initial    *)
(* state; bounce is called while fewer than MaxAnimating closures animate   *)
(* and the registry has room for the marker.                               *)

Init == InitWith(InitOptions)

Room(m) ==
    /\ Cardinality(DOMAIN chains) < MaxAnimating
    /\ Len(AddBouncingMarker(bouncingMarkers, motion, Exclusif, m,
                             BouncingOptions(m).exclusif).markers)
           <= MaxRegistry

Next ==
    \/ \E m \in Markers : Room(m) /\ Bounce(m, FALSE, 0)
    \/ \E m \in Markers : \E n \in TimesGiven : Room(m) /\ Bounce(m, TRUE, n)
    \/ \E m \in Markers : StopBouncing(m)
    \/ \E m \in Markers : (motion[m].isBouncing \/ Room(m)) /\ ToogleBouncing(m)
    \/ StopAll
    \/ Fire
    \/ Tick

Spec == Init /\ [][Next]_vars

(* SpecSync: the calls one task of the host makes one after the other; no  *)
(* timer callback runs before the task ends.                               *)

InitSync == InitWith({o \in InitOptions : o.elastic /\ ~o.exclusif}) /\ is3d

NextSync ==
    \/ \E m \in Markers : Bounce(m, FALSE, 0)
    \/ \E m \in Markers : \E n \in TimesGiven : Bounce(m, TRUE, n)
    \/ \E m \in Markers : StopBouncing(m)
    \/ \E m \in Markers : ToogleBouncing(m)
    \/ StopAll
    \/ \E m \in Markers : \E o \in ExclusifOptions : SetBouncingOptions(m, o)
    \/ \E o \in ExclusifOptions : SetDefaultBouncingOptions(o)

SpecSync == InitSync /\ [][NextSync]_vars

(* SpecTimeline: the script is loaded and no marker exists yet; the        *)
(* timeline calculator is called on its own.                               *)

StepsPrefixes == {"moveSteps_", "resizeSteps_"}

InitTimeline ==
    /\ is3d = TRUE
    /\ defaults = ProgramDefaults
    /\ ownOptions = <<>>
    /\ motion = <<>>
    /\ bouncingMarkers = <<>>
    /\ cache = <<>>
    /\ allocs = 0
    /\ chains = <<>>
    /\ timers = <<>>
    /\ ret = NoArray
    /\ calc = NoCalc
    /\ lastOp = Op("init", "-", 0)

\* calculateSteps(height, prefix)
CalculateStepsCall(height, prefix) ==
    LET r == CalculateSteps(cache, allocs, height, prefix)
    IN  /\ r.allocs <= MaxArrays
        /\ cache' = r.cache
        /\ allocs' = r.allocs
        /\ ret' = r.ret
        /\ lastOp' = Op("calculateSteps", prefix, height)
        /\ UNCHANGED <<is3d, defaults, ownOptions, motion, bouncingMarkers,
                       chains, timers, calc>>

NextTimeline ==
    \E h \in 1..MaxCalcExtent : \E k \in StepsPrefixes :
        CalculateStepsCall(h, k)

SpecTimeline == InitTimeline /\ [][NextTimeline]_vars

-----------------------------------------------------------------------------
(* calculateDelays statement by statement.  calc is the frame of the call:  *)
(* its arguments, its locals deltas, delays, totalDelay and i, and pc, the  *)
(* loop it is in.  deltas is the JavaScript array as the function from its  *)
(* property names to their values: an assignment below index 0 adds a       *)
(* property and leaves the length alone.  The frame of a call that has      *)
(* returned stays in calc (pc = "done", hit telling a cache hit) until the  *)
(* next call.                                                               *)

MaxDelayExtent == 4   \* heights given to calculateDelays are 0..MaxDelayExtent
MaxDelaySpeed == 3    \* speeds given to calculateDelays are 1..MaxDelaySpeed
MaxDelayArrays == 2   \* delay arrays calculateDelays may put in the cache
MaxSpin == 3          \* how far below 0 a loop counter is followed

DelaysPrefixes == {"moveDelays_", "resizeDelays_"}

\* calculateDelays(height, speed, prefix) up to the first loop, or up to the
\* return when the cache has the key
CalculateDelaysCall(height, speed, prefix) ==
    LET key == <<prefix, height, speed>>
        frame == [height |-> height, speed |-> speed, prefix |-> prefix,
                  delays |-> <<>>, totalDelay |-> 0]
    IN  /\ ~Running
        /\ lastOp' = Op("calculateDelays", prefix, height)
        /\ IF key \in DOMAIN cache
           THEN /\ ret' = cache[key]
                /\ calc' = frame @@ [pc |-> "done", hit |-> TRUE, i |-> 0,
                                     deltas |-> <<>>]
           ELSE /\ Cardinality(DOMAIN cache) < MaxDelayArrays
                /\ ret' = NoArray
                /\ calc' = DelaysFrame(height, speed, prefix)
        /\ UNCHANGED <<is3d, defaults, ownOptions, motion, bouncingMarkers,
                       cache, allocs, chains, timers>>

\* while (--i) deltas[i] = Math.round(speed / (height - i));  i = height
OutboundStep ==
    /\ calc.pc = "outbound"
    /\ calc.i - 1 >= -MaxSpin
    /\ LET i == calc.i - 1
       IN  calc' = IF i # 0
                   THEN [calc EXCEPT !.i = i,
                            !.deltas = Put(@, i, MathRound(calc.speed,
                                                           calc.height - i))]
                   ELSE [calc EXCEPT !.i = calc.height, !.pc = "mirror"]
    /\ UNCHANGED <<is3d, defaults, ownOptions, motion, bouncingMarkers, cache,
                   allocs, chains, timers, ret, lastOp>>

\* while (i--) deltas.push(deltas[i]);  i = 0
MirrorStep ==
    /\ calc.pc = "mirror"
    /\ calc' = IF calc.i # 0
               THEN [calc EXCEPT !.i = @ - 1,
                                 !.deltas = Push(@, calc.deltas[calc.i - 1])]
               ELSE [calc EXCEPT !.i = 0, !.pc = "cumulate"]
    /\ UNCHANGED <<is3d, defaults, ownOptions, motion, bouncingMarkers, cache,
                   allocs, chains, timers, ret, lastOp>>

\* for (...; i < deltas.length; i++) delays.push(totalDelay += deltas[i]);
\* then the array goes to the cache and is returned
CumulateStep ==
    /\ calc.pc = "cumulate"
    /\ IF calc.i < Length(calc.deltas)
       THEN /\ calc' = [calc EXCEPT
                           !.totalDelay = @ + calc.deltas[calc.i],
                           !.delays = Append(@, calc.totalDelay
                                                   + calc.deltas[calc.i]),
                           !.i = @ + 1]
            /\ UNCHANGED <<cache, allocs, ret>>
       ELSE LET key == <<calc.prefix, calc.height, calc.speed>>
                arr == [id |-> allocs + 1, a |-> calc.delays]
            IN  /\ cache' = [k \in DOMAIN cache \cup {key} |->
                                IF k = key THEN arr ELSE cache[k]]
                /\ allocs' = allocs + 1
                /\ ret' = arr
                /\ calc' = [calc EXCEPT !.pc = "done"]
    /\ UNCHANGED <<is3d, defaults, ownOptions, motion, bouncingMarkers,
                   chains, timers, lastOp>>

NextDelays ==
    \/ \E h \in 0..MaxDelayExtent : \E s \in 1..MaxDelaySpeed :
          \E k \in DelaysPrefixes : CalculateDelaysCall(h, s, k)
    \/ OutboundStep
    \/ MirrorStep
    \/ CumulateStep

SpecDelays == InitTimeline /\ [][NextDelays]_vars

-----------------------------------------------------------------------------
(* calculateLine statement by statement.  The angle enters the function     *)
(* only through the rounded end point (xD, yD), at distance 2 * length:     *)
(* a call is given the origin and the offset of that end point.  err is     *)
(* kept doubled (err2), since (dx > dy ? dx : -dy) / 2 may be a half.       *)

MaxOrigin == 1        \* origins of a line are within -MaxOrigin..MaxOrigin
MaxLineLength == 3    \* lengths given to calculateLine are 0..MaxLineLength
MaxLinePoints == 5    \* points a call is followed for

Abs(n) == IF n < 0 THEN -n ELSE n

\* the offsets (u, v) that are Math.round of a point at distance 2 * length:
\* the circle of that radius meets the unit square around (u, v)
EndOffsets(length) ==
    LET r == 2 * length
        Near(n) == IF n = 0 THEN 0 ELSE 2 * Abs(n) - 1
        Far(n) == 2 * Abs(n) + 1
    IN  {o \in (-r..r) \X (-r..r) :
            /\ Near(o[1]) * Near(o[1]) + Near(o[2]) * Near(o[2]) <= 4 * r * r
            /\ 4 * r * r <= Far(o[1]) * Far(o[1]) + Far(o[2]) * Far(o[2])}

\* calculateLine(x, y, angle, length) up to the loop
CalculateLineCall(x, y, o, length) ==
    LET xD == x + o[1]
        yD == y + o[2]
        dx == Abs(xD - x)
        dy == Abs(yD - y)
    IN  /\ ~Running
        /\ calc' = [pc |-> "line", x |-> x, y |-> y, length |-> length,
                    dx |-> dx, sx |-> IF x < xD THEN 1 ELSE -1,
                    dy |-> dy, sy |-> IF y < yD THEN 1 ELSE -1,
                    err2 |-> IF dx > dy THEN dx ELSE -dy,
                    p |-> <<>>, i |-> 0, origin |-> <<x, y>>]
        /\ lastOp' = Op("calculateLine", "-", length)
        /\ UNCHANGED <<is3d, defaults, ownOptions, motion, bouncingMarkers,
                       cache, allocs, chains, timers, ret>>

\* one turn of while (true): push the point, leave when i === length,
\* else move on to the next point
LineStep ==
    /\ calc.pc = "line"
    /\ calc.i < MaxLinePoints
    /\ LET i == calc.i + 1
           e2 == calc.err2
           right == e2 > -2 * calc.dx
           down == e2 < 2 * calc.dy
           pushed == [calc EXCEPT !.p = Append(@, <<calc.x, calc.y>>),
                                  !.i = i]
       IN  calc' = IF i = calc.length
                   THEN [pushed EXCEPT !.pc = "lineDone"]
                   ELSE [pushed EXCEPT
                            !.err2 = e2 - (IF right THEN 2 * calc.dy ELSE 0)
                                        + (IF down THEN 2 * calc.dx ELSE 0),
                            !.x = IF right THEN @ + calc.sx ELSE @,
                            !.y = IF down THEN @ + calc.sy ELSE @]
    /\ UNCHANGED <<is3d, defaults, ownOptions, motion, bouncingMarkers, cache,
                   allocs, chains, timers, ret, lastOp>>

NextLine ==
    \/ \E x, y \in -MaxOrigin..MaxOrigin : \E length \in 0..MaxLineLength :
          \E o \in EndOffsets(length) : CalculateLineCall(x, y, o, length)
    \/ LineStep

SpecLine == InitTimeline /\ [][NextLine]_vars

-----------------------------------------------------------------------------
(* SpecValidate: marker.setBouncingOptions called with heights and speeds   *)
(* that may be 0 or, for the speeds, negative.                              *)

MaxSetExtent == 1     \* heights given to setBouncingOptions are 0..MaxSetExtent
MaxSetSpeed == 1      \* speeds given to it are -1..MaxSetSpeed

ExtentOptions ==
    {[bounceHeight |-> h] : h \in 0..MaxSetExtent}
        \cup {[contractHeight |-> h] : h \in 0..MaxSetExtent}

SpeedOptions ==
    {[bounceSpeed |-> v] : v \in -1..MaxSetSpeed}
        \cup {[contractSpeed |-> v] : v \in -1..MaxSetSpeed}

NextValidate ==
    \/ \E m \in Markers : \E o \in ExtentOptions \cup SpeedOptions :
          SetBouncingOptions(m, o)
    \/ OutboundStep

SpecValidate == InitSync /\ [][NextValidate]_vars

-----------------------------------------------------------------------------
(* SpecAttach: markers that are constructed but not yet added to the map.  *)

\* marker.onAdd(map)
OnAdd(m) ==
    /\ motion[m].baseIconCssText = "undefined"
    /\ motion' = [motion EXCEPT ![m].baseIconCssText = "css"]
    /\ lastOp' = Op("onAdd", m, 0)
    /\ UNCHANGED <<is3d, defaults, ownOptions, bouncingMarkers, cache, allocs,
                   chains, timers, ret, calc>>

InitAttach == InitMarkers(InitOptions, {})

NextAttach ==
    \/ \E m \in Markers : OnAdd(m)
    \/ \E m \in Markers : Bounce(m, FALSE, 0)
    \/ \E m \in Markers : StopBouncing(m)

SpecAttach == InitAttach /\ [][NextAttach]_vars

-----------------------------------------------------------------------------
(* SpecRetime: marker.setBouncingOptions changing the height or the speed   *)
(* of the movement of one marker, before and while it bounces, on a host    *)
(* with 3d transforms; one bounce() at a time animates.                     *)

MaxRetimeExtent == 2   \* bounce heights set are 1..MaxRetimeExtent
MaxRetimeSpeed == 2    \* bounce speeds set are 1..MaxRetimeSpeed

RetimeOptions ==
    {[bounceHeight |-> h] : h \in 1..MaxRetimeExtent}
        \cup {[bounceSpeed |-> v] : v \in 1..MaxRetimeSpeed}

\* the marker whose options are set and that bounces
Retimed == CHOOSE m \in Markers : TRUE

InitRetime == InitWith({o \in InitOptions : ~o.exclusif}) /\ is3d

NextRetime ==
    \/ \E o \in RetimeOptions : SetBouncingOptions(Retimed, o)
    \/ \E n \in TimesGiven :
          /\ chains = <<>>
          /\ Len(bouncingMarkers) < MaxRegistry
          /\ Bounce(Retimed, TRUE, n)
    \/ StopBouncing(Retimed)
    \/ Fire
    \/ Tick

SpecRetime == InitRetime /\ [][NextRetime]_vars

(* SpecOrder: one marker bounces a given number of times with the options   *)
(* of the initial state, whose heights are large enough and whose speeds    *)
(* small enough for Math.round to give deltas of 0.                         *)

MaxOrderExtent == 4   \* bounce/contract heights are 1..MaxOrderExtent
MaxOrderSpeed == 2    \* speed coefficients are 1..MaxOrderSpeed

OrderOptions ==
    {[bounceHeight |-> h, contractHeight |-> h, bounceSpeed |-> s,
      contractSpeed |-> s, elastic |-> e, exclusif |-> FALSE] :
        h \in 1..MaxOrderExtent, s \in 1..MaxOrderSpeed, e \in BOOLEAN}

InitOrder == InitWith(OrderOptions)

NextOrder ==
    \/ \E n \in TimesGiven :
          /\ chains = <<>>
          /\ Len(bouncingMarkers) < MaxRegistry
          /\ Bounce(Retimed, TRUE, n)
    \/ StopBouncing(Retimed)
    \/ Fire
    \/ Tick

SpecOrder == InitOrder /\ [][NextOrder]_vars

(* SpecCompile: one marker, with or without 3d transforms, whose options   *)
(* are set and whose position changes while the callbacks of its bounce     *)
(* are pending.                                                             *)

InitCompile == InitWith({o \in InitOptions : ~o.exclusif})

NextCompile ==
    \/ \E o \in RetimeOptions : SetBouncingOptions(Retimed, o)
    \/ SetPos(Retimed)
    \/ \E n \in TimesGiven :
          /\ chains = <<>>
          /\ Len(bouncingMarkers) < MaxRegistry
          /\ Bounce(Retimed, TRUE, n)
    \/ StopBouncing(Retimed)
    \/ Fire
    \/ Tick

SpecCompile == InitCompile /\ [][NextCompile]_vars

(* SpecCycles: bounce(n) is called once on one marker, with a count that   *)
(* may be zero or negative, and nothing else is called; the host runs      *)
(* every callback that is due and time passes.                              *)

MaxDebt == 1    \* the counts passed to bounce are -MaxDebt..MaxTimes

CyclesGiven == (0 - MaxDebt)..MaxTimes

InitCycles == InitWith({o \in InitOptions : ~o.exclusif})

NextCycles ==
    \/ \E n \in CyclesGiven : lastOp.op = "init" /\ Bounce(Retimed, TRUE, n)
    \/ Fire
    \/ Tick

SpecCycles ==
    InitCycles /\ [][NextCycles]_vars /\ WF_vars(Fire) /\ WF_vars(Tick)

(* SpecDefaults: heights and speeds are set for single markers and in the  *)
(* defaults, after the markers were created.                                *)

InitDefaults == InitSync

NextDefaults ==
    \/ \E o \in RetimeOptions : SetDefaultBouncingOptions(o)
    \/ \E m \in Markers : \E o \in RetimeOptions : SetBouncingOptions(m, o)

SpecDefaults == InitDefaults /\ [][NextDefaults]_vars

-----------------------------------------------------------------------------
(* Properties *)

\* the callback of kind k of chain c is the one that runs in this step
Fires(c, k) ==
    /\ timers # <<>>
    /\ Head(timers).rem = 0
    /\ Head(timers).kind = k
    /\ Head(timers).chain = c
    /\ lastOp'.op = "timer"

ResizingBegins(c) == c \in DOMAIN chains' /\ chains'[c].phase = "Resizing"

\* C1 as stated: once stopBouncing was called during a Moving phase (and
\* bounce not again), the callback ending that phase starts no Resizing
\* phase, whatever the configuration.
C1_NoResizeAfterStop ==
    [][\A c \in DOMAIN chains :
          Fires(c, "moveEnd") /\ chains[c].stoppedInMove
              => ~ResizingBegins(c)]_vars

\* C1 amended: stopBouncing cancels no scheduled callback; when the callback
\* ending a Moving phase runs after stopBouncing was called during that
\* phase (and bounce not again), every step callback of the phase has fired,
\* isBouncing is false, and a Resizing phase begins exactly when the bounce
\* was started elastic on a transform-capable host; otherwise the chain
\* ends.  The callback ending that Resizing phase ends the chain, and a
\* stopped chain never starts another Moving phase.
C1_StopLetsPhaseFinish ==
    [][/\ lastOp'.op = "stopBouncing" => timers' = timers
       /\ \A c \in DOMAIN chains :
             chains[c].stoppedInMove =>
                /\ Fires(c, "moveEnd") =>
                      /\ \A i \in 2..Len(timers) : timers[i].chain # c
                      /\ ~motion[chains[c].marker].isBouncing
                      /\ IF chains[c].elastic /\ is3d
                         THEN ResizingBegins(c)
                         ELSE c \notin DOMAIN chains'
                /\ Fires(c, "resizeEnd") => c \notin DOMAIN chains'
                /\ ~Fires(c, "move")
                /\ c \in DOMAIN chains' => chains'[c].phase # "Waiting"]_vars

\* a chain stopped during its Moving phase has gone on to a Resizing phase
C1_Witness ==
    \E c \in DOMAIN chains :
        chains[c].stoppedInMove /\ chains[c].phase = "Resizing"

\* C2: each marker appears at most once in the bouncing registry.
C2_NoDoubleRegistration ==
    \A i, j \in DOMAIN bouncingMarkers :
        i # j => bouncingMarkers[i] # bouncingMarkers[j]

\* C3: right after stopBouncing(m) returns, isBouncing(m) is false and m is
\* nowhere in the registry.
C3_StoppedIsGone ==
    lastOp.op = "stopBouncing" =>
        /\ ~motion[lastOp.on].isBouncing
        /\ lastOp.on \notin Range(bouncingMarkers)

\* C4: every marker in the registry is bouncing.
C4_RegisteredAreBouncing ==
    \A i \in DOMAIN bouncingMarkers : motion[bouncingMarkers[i]].isBouncing

\* C5: an exclusif marker in the registry is the only marker in it.
C5_ExclusifAlone ==
    \A i, j \in DOMAIN bouncingMarkers :
        Exclusif[bouncingMarkers[i]] => bouncingMarkers[j] = bouncingMarkers[i]

\* C6: bounce on an exclusif marker m leaves exactly m registered and every
\* other marker that was registered not bouncing; bounce on another marker
\* stops and removes the registered exclusif markers, keeps the others in
\* their order with isBouncing as it was, and appends m.
C6_BounceRegisters ==
    [][lastOp'.op = "bounce" =>
          LET m == lastOp'.on
              others == Range(bouncingMarkers) \ {m}
              Plain(x) == ~Exclusif[x]
          IN  IF Exclusif[m]
              THEN /\ bouncingMarkers' = <<m>>
                   /\ \A x \in others : ~motion'[x].isBouncing
              ELSE /\ bouncingMarkers' =
                          Append(SelectSeq(bouncingMarkers, Plain), m)
                   /\ \A x \in others :
                         motion'[x].isBouncing =
                            (~Exclusif[x] /\ motion[x].isBouncing)]_vars

\* bounce on a plain marker found two entries, removed the exclusif one and
\* kept the other
C6_Witness ==
    /\ lastOp.op = "bounce"
    /\ ~Exclusif[lastOp.on]
    /\ lastOp.n = 2
    /\ Len(bouncingMarkers) = 2
    /\ \E x \in Markers :
          Exclusif[x] /\ x \notin Range(bouncingMarkers)
                      /\ ~motion[x].isBouncing

\* C7: stopBouncingMarkers empties the registry, every marker that was in it
\* is not bouncing afterwards and every other marker keeps its isBouncing.
C7_StopAllStopsAll ==
    [][lastOp'.op = "stopBouncingMarkers" =>
          /\ bouncingMarkers' = <<>>
          /\ \A m \in Markers :
                motion'[m].isBouncing =
                   (m \notin Range(bouncingMarkers) /\ motion[m].isBouncing)]_vars

\* stopBouncingMarkers found three entries
C7_Witness ==
    /\ lastOp.op = "stopBouncingMarkers"
    /\ lastOp.n = 3
    /\ bouncingMarkers = <<>>

\* C8: a bounce with a finite count n >= 1 that nothing disturbs starts
\* exactly n Moving phases, and its last phase is a Resizing phase exactly
\* when it is elastic on a transform-capable host.
C8_CountedPasses ==
    [][\A c \in DOMAIN chains :
          (/\ c \notin DOMAIN chains'
           /\ chains[c].finite
           /\ chains[c].count >= 1
           /\ chains[c].undisturbed)
              => /\ chains[c].moves = chains[c].count
                 /\ (chains[c].phase = "Resizing")
                       = (chains[c].elastic /\ is3d)]_vars

\* C9: when bounce(m) returns, m is bouncing, registered and in a Moving
\* phase.
C9_BounceStarts ==
    lastOp.op = "bounce" =>
        /\ motion[lastOp.on].isBouncing
        /\ lastOp.on \in Range(bouncingMarkers)
        /\ \E c \in ChainsOf(lastOp.on) : chains[c].phase = "Moving"

\* the sequence 1, 2, ..., h, h-1, ..., 0
RiseAndFall(h) == [i \in 1..(2 * h) |-> IF i <= h THEN i ELSE 2 * h - i]

\* C10: calculateSteps(h, k) returns 1, ..., h, h-1, ..., 0, of length 2h,
\* and what the cache holds for (k, h) when it holds something.
C10_Steps ==
    [][lastOp'.op = "calculateSteps" =>
          LET h == lastOp'.n
              key == <<lastOp'.on, h>>
          IN  /\ ret'.a = RiseAndFall(h)
              /\ Len(ret'.a) = 2 * h
              /\ key \in DOMAIN cache => ret' = cache[key] /\ cache' = cache
              /\ cache'[key] = ret']_vars

\* a call for the largest height was answered from the cache
C10_Witness ==
    /\ lastOp.op = "calculateSteps"
    /\ lastOp.n = MaxCalcExtent
    /\ ret.id < allocs

\* deltas[0] + ... + deltas[j]
RECURSIVE SumTo(_, _)
SumTo(arr, j) == IF j < 0 THEN 0 ELSE arr[j] + SumTo(arr, j - 1)

\* C11: calculateDelays(h, s, k) returns 2h delays, the same number as
\* calculateSteps(h, k) returns steps; each is the sum of the deltas up to
\* its index, and they never decrease.
C11_Delays ==
    calc.pc = "done" =>
        /\ Len(ret.a) = 2 * calc.height
        /\ Len(ret.a) = Len(NewSteps(calc.height))
        /\ \A j \in 1..(Len(ret.a) - 1) : ret.a[j] <= ret.a[j + 1]
        /\ ~calc.hit =>
              \A j \in 1..Len(ret.a) : ret.a[j] = SumTo(calc.deltas, j - 1)

\* C12: the deltas that calculateDelays(h, s, k) cumulates are 0 at
\* position 0, round(s / (h - i)) at position i for 1 <= i < h and s at
\* position h, and the whole sequence has 2h entries and is symmetric.
C12_Deltas ==
    calc.pc = "cumulate" =>
        LET h == calc.height
            d == calc.deltas
        IN  /\ d[0] = 0
            /\ \A i \in 1..(h - 1) : 2 * (h - i) * d[i] <= 2 * calc.speed + (h - i)
                                   /\ 2 * calc.speed + (h - i) < 2 * (h - i) * (d[i] + 1)
            /\ d[h] = calc.speed
            /\ Length(d) = 2 * h
            /\ \A j \in 0..(Length(d) - 1) : d[j] = d[Length(d) - 1 - j]

\* C13: calculateDelays for height 0 comes to an end, its loop counter never
\* running below 0 where no decrement can bring it to 0 again, and returns
\* an empty array.
C13_ZeroExtent ==
    (calc.pc # "idle" /\ calc.height = 0) =>
        /\ calc.i >= 0
        /\ calc.pc = "done" => ret.a = <<>>

\* C14: calculateLine for a length >= 1 comes to an end, having pushed
\* exactly length points of which the first is the origin; for length 0 it
\* is rejected, so no point is ever produced.
C14_Line ==
    calc.pc \in {"line", "lineDone"} =>
        /\ calc.length >= 1 =>
              /\ Len(calc.p) <= calc.length
              /\ calc.pc = "lineDone" =>
                    Len(calc.p) = calc.length /\ calc.p[1] = calc.origin
        /\ calc.length = 0 => calc.p = <<>>

\* C15: marker.setBouncingOptions rejects a height or a speed that is not
\* positive and leaves the configuration as it was, so no marker ever has
\* such a value in its configuration.
C15_InvalidRejected ==
    \A m \in Markers :
        /\ BouncingOptions(m).bounceHeight > 0
        /\ BouncingOptions(m).contractHeight > 0
        /\ BouncingOptions(m).bounceSpeed > 0
        /\ BouncingOptions(m).contractSpeed > 0

\* C16: bounce on a marker that is not on the map fails at once: the marker
\* is not bouncing afterwards, the registry is as it was, no other marker
\* was stopped and no callback is scheduled.
C16_NotAttached ==
    [][(lastOp'.op = "bounce"
          /\ motion[lastOp'.on].baseIconCssText = "undefined")
         => /\ ~motion'[lastOp'.on].isBouncing
            /\ bouncingMarkers' = bouncingMarkers
            /\ \A x \in Markers : motion'[x].isBouncing = motion[x].isBouncing
            /\ timers' = timers]_vars

\* chain c starts a Moving phase in this step: by bounce(), by the timer
\* that restarts move(), or by the callback ending a Resizing phase
MovingBegins(c) ==
    /\ c \in DOMAIN chains'
    /\ chains'[c].phase = "Moving"
    /\ \/ c \notin DOMAIN chains
       \/ Fires(c, "move")
       \/ Fires(c, "resizeEnd")

\* the delays left of the move-step callbacks of chain c in queue q
MoveStepDelays(q, c) ==
    LET OfChain(t) == t.chain = c /\ t.kind = "moveStep"
        T == SelectSeq(q, OfChain)
    IN  [j \in 1..Len(T) |-> T[j].rem]

\* C17: every Moving phase of a bounce() schedules exactly 2 * bounceHeight
\* move-step callbacks, at the first 2 * bounceHeight delays of the timeline
\* for the bounceHeight and bounceSpeed the marker was configured with when
\* bounce() was called.
C17_Retimed ==
    [][\A c \in DOMAIN chains' :
          MovingBegins(c) =>
             MoveStepDelays(timers', c) =
                SubSeq(NewDelays(chains'[c].bounceHeight,
                                 chains'[c].bounceSpeed),
                       1, 2 * chains'[c].bounceHeight)]_vars

\* a marker whose height was set to 2 is in the second Moving phase of a
\* bounce
C17_Witness ==
    \E c \in DOMAIN chains :
        /\ chains[c].marker \in DOMAIN ownOptions
        /\ chains[c].bounceHeight = 2
        /\ chains[c].moves = 2
        /\ chains[c].phase = "Moving"
        /\ Len(MoveStepDelays(timers, c)) = 4

\* the steps of the callbacks of kind k of chain c in queue q, in the order
\* in which they will fire
StepsQueued(q, c, k) ==
    LET OfChain(t) == t.chain = c /\ t.kind = k
        T == SelectSeq(q, OfChain)
    IN  [j \in 1..Len(T) |-> T[j].step]

\* C18: the step callbacks of a phase fire in timeline order: those of a
\* Moving phase apply the steps 1..h, h-1..0 in this order, those of a
\* Resizing phase the resize steps in their order, so that the rest state
\* (step 0) is the last one applied, whatever the height and the speed.
C18_TimelineOrder ==
    [][\A c \in DOMAIN chains' :
          /\ MovingBegins(c) =>
                StepsQueued(timers', c, "moveStep") = chains'[c].moveSteps.a
          /\ (Fires(c, "moveEnd") /\ ResizingBegins(c)) =>
                StepsQueued(timers', c, "resizeStep")
                    = chains'[c].resizeSteps.a]_vars
\* the phase of the closure c of a bounce() call in the chains chs
PhaseIn(chs, c) == IF c \in DOMAIN chs THEN chs[c].phase ELSE "Idle"

\* the callbacks of chain c pending in queue q
PendingOf(q, c) ==
    LET OfChain(t) == t.chain = c
    IN  SelectSeq(q, OfChain)

\* C19: the animation of one bounce() call goes Idle -> Moving, Moving ->
\* Resizing, Resizing -> Moving, Moving -> (wait) -> Moving and -> Idle only.
\* Resizing begins only from the callback ending a Moving phase, and only
\* if elastic was set and the browser does 3d transforms.  Otherwise that
\* callback, if the marker is bouncing, leaves exactly the restart of
\* move() pending, due bounceSpeed ms later, and that timer begins the next
\* Moving phase; if the marker is not bouncing nothing of the call is left
\* pending.  The callback ending a Resizing phase begins a Moving phase if
\* the marker is bouncing, and leaves nothing pending if not.
C19_PhaseMachine ==
    [][\A c \in ChainIds :
          LET old == PhaseIn(chains, c)
              new == PhaseIn(chains', c)
              m == chains[c].marker
          IN  /\ old # new =>
                    <<old, new>> \in {<<"Idle", "Moving">>,
                                      <<"Moving", "Resizing">>,
                                      <<"Resizing", "Moving">>,
                                      <<"Moving", "Waiting">>,
                                      <<"Waiting", "Moving">>,
                                      <<"Moving", "Idle">>,
                                      <<"Resizing", "Idle">>}
              /\ (old # "Resizing" /\ new = "Resizing") =>
                    /\ Fires(c, "moveEnd")
                    /\ chains[c].elastic
                    /\ is3d
              /\ (Fires(c, "moveEnd") /\ ~(chains[c].elastic /\ is3d)) =>
                    IF motion[m].isBouncing
                    THEN /\ new = "Waiting"
                         /\ PendingOf(timers', c)
                               = <<Timer(c, "move", 0, chains[c].bounceSpeed)>>
                    ELSE new = "Idle" /\ PendingOf(timers', c) = <<>>
              /\ Fires(c, "move") => old = "Waiting" /\ MovingBegins(c)
              /\ Fires(c, "resizeEnd") =>
                    IF motion[m].isBouncing THEN MovingBegins(c)
                    ELSE new = "Idle" /\ PendingOf(timers', c) = <<>>]_vars

\* in a browser without 3d transforms an elastic marker waits for its next
\* Moving phase, no Resizing phase having been played
C19_Witness ==
    \E c \in DOMAIN chains :
        /\ ~is3d
        /\ chains[c].elastic
        /\ chains[c].phase = "Waiting"
        /\ motion[chains[c].marker].isBouncing
        /\ PendingOf(timers, c) # <<>>
        /\ PendingOf(timers, c)[1].rem = 0
\* the arrays the step callback of timer t reads have an entry at its step
StepDefined(t) ==
    LET mo == motion[chains[t.chain].marker]
    IN  IF t.kind = "resizeStep"
        THEN /\ Defined(mo.iconResizeTransforms, t.step)
             /\ Defined(mo.shadowResizeTransforms, t.step)
        ELSE IF is3d
        THEN /\ Defined(mo.iconMoveTransforms, t.step)
             /\ Defined(mo.shadowMoveTransforms, t.step)
        ELSE /\ Defined(mo.iconMovePoints, t.step)
             /\ Defined(mo.shadowMovePoints, t.step)

\* C20: when a step callback fires, the arrays of compiled states it reads
\* (transforms with 3d, points without) have an entry at its step for the
\* icon and for the shadow, also after setBouncingOptions or _setPos have
\* compiled them again while the callback was pending.
C20_StepDefined ==
    [][\A c \in DOMAIN chains :
          (Fires(c, "moveStep") \/ Fires(c, "resizeStep"))
              => StepDefined(Head(timers))]_vars
\* the callbacks pending for marker m that end a phase or restart move():
\* each of them can start the next phase of its bounce() call
Boundaries(m) ==
    LET AtBoundary(t) == /\ t.kind \in {"moveEnd", "resizeEnd", "move"}
                         /\ chains[t.chain].marker = m
    IN  SelectSeq(timers, AtBoundary)

\* C21: a marker is animated by one bounce() call at a time: while it is
\* bouncing, at most one callback that can start a next phase is pending
\* for it, also after bounce on a marker that is animating, and after
\* stopBouncing followed by bounce before the stopped phase has finished.
C21_OneChain ==
    \A m \in Markers : motion[m].isBouncing => Len(Boundaries(m)) <= 1
\* C22: a marker whose isBouncing flag is set is in the registry.
C22_BouncingAreRegistered ==
    \A m \in Markers : motion[m].isBouncing => m \in Range(bouncingMarkers)

\* a marker bounces, registered, while another one, evicted or stopped with
\* callbacks still pending, is neither bouncing nor registered
C22_Witness ==
    \E m, x \in Markers :
        /\ motion[m].isBouncing
        /\ m \in Range(bouncingMarkers)
        /\ Exclusif[x]
        /\ lastOp = Op("bounce", m, 1)
        /\ ChainsOf(x) # {}
        /\ ~motion[x].isBouncing
        /\ x \notin Range(bouncingMarkers)
\* C23: after bounce(n) with a count n, whatever its sign, and no further
\* call, the marker ends up not bouncing with no callback pending.
C23_FiniteEnds ==
    (lastOp.op = "bounce")
        ~> (~motion[Retimed].isBouncing /\ timers = <<>>)
\* C24: the timeline a marker holds is the one of the options in effect for
\* it, its own or the defaults it inherits: 2 * bounceHeight move steps,
\* 2 * contractHeight resize steps, and the delays of these heights and of
\* the speeds in effect.
C24_TimelineMatches ==
    \A m \in Markers :
        LET o == BouncingOptions(m)
        IN  /\ Len(motion[m].moveSteps.a) = 2 * o.bounceHeight
            /\ Len(motion[m].resizeSteps.a) = 2 * o.contractHeight
            /\ motion[m].moveDelays.a = NewDelays(o.bounceHeight, o.bounceSpeed)
            /\ motion[m].resizeDelays.a
                  = NewDelays(o.contractHeight, o.contractSpeed)
====
